---- MODULE Spec2Model ----
(***************************************************************************)
(* A model of the wildlife sighting / harvest logging application:         *)
(* src/app.py (routes and seeding), src/models.py (schema) and             *)
(* src/forms.py (Taxonomy and form validation).                            *)
(*                                                                         *)
(* Python's None is the empty sequence <<>>, a present value v is <<v>>.   *)
(* A text input is a sequence of one-character strings, so "" is <<>>      *)
(* wrapped as << <<>> >> and an absent input is <<>>.                      *)
(***************************************************************************)
EXTENDS Integers, Sequences, FiniteSets, TLC

None == <<>>
Some(v) == <<v>>

(***************************************************************************)
(* Bounds of the model.                                                    *)
(***************************************************************************)
\* Largest Sighting primary key the model lets an insert produce.
MaxSightingId == 2
\* Largest Harvest primary key the model lets an insert produce.
MaxHarvestId == 2
\* Largest Sighting primary key where the lists are checked.
MaxListId == 3
\* Rows per table where a request is followed statement by statement.
MaxConcId == 1
\* Harvest rows the database holds when sightings are edited next to them.
MaxStoredId == 1

(***************************************************************************)
(* forms.py: the Taxonomy.                                                 *)
(***************************************************************************)
Categories ==
    <<"Big Game", "Small Game", "Upland Birds", "Waterfowl", "Predators & Other">>

ANIMAL_CHOICES ==
    [c \in {Categories[i] : i \in 1..Len(Categories)} |->
        CASE c = "Big Game" ->
               <<"American Bison", "Black Bear", "Brown Bear", "Caribou", "Cougar",
                 "Elk", "Moose", "Mule Deer", "Pronghorn", "Whitetail Deer(Buck)",
                 "Whitetail Deer(Doe)", "Wild Boar">>
          [] c = "Small Game" ->
               <<"Beaver", "Cottontail", "Crow", "Groundhog", "Opossum",
                 "Porcupine", "Rabbit", "Raccoon", "Squirrel">>
          [] c = "Upland Birds" ->
               <<"Bobwhite Quail", "Chukar Partridge",
                 "Grouse (Ruffed, Sage, Spruce, Sharp-Tailed)",
                 "Hungarian Partridge", "Pheasant", "Ptarmigan", "Turkey",
                 "Woodcock">>
          [] c = "Waterfowl" ->
               <<"Duck", "Mallard", "Teal", "Wood Duck", "Canada Goose", "Goose",
                 "Brant", "Mergansers">>
          [] c = "Predators & Other" ->
               <<"Coyote", "Fox", "Bobcat", "Nutria", "Other">>]

Range(s) == {s[i] : i \in 1..Len(s)}

\* Every animal name of the Taxonomy.
TaxonomyNames == UNION {Range(ANIMAL_CHOICES[c]) : c \in DOMAIN ANIMAL_CHOICES}

\* The values of HarvestForm.animal's choices (the first member of each pair).
HarvestAnimalChoices ==
    {"", "American Bison", "Black Bear", "Brown Bear", "Caribou", "Cougar", "Elk",
     "Moose", "Mule Deer", "Pronghorn", "Whitetail Deer(Buck)",
     "Whitetail Deer(Doe)", "Whitetail Deer(Button Buck)", "Wild Boar", "Beaver",
     "Cottontail", "Crow", "Groundhog", "Opossum", "Porcupine", "Rabbit",
     "Raccoon", "Squirrel", "Bobwhite Quail", "Chukar Partridge", "Grouse",
     "Hungarian Partridge", "Pheasant", "Ptarmigan", "Turkey", "Woodcock", "Duck",
     "Goose", "Brant", "Mergansers", "Coyote", "Fox", "Bobcat", "Nutria", "Other"}

\* SightingForm.animal_category's choices.
CategoryChoices == {""} \cup DOMAIN ANIMAL_CHOICES

\* FileAllowed(['jpg', 'jpeg', 'png', 'gif']).
AllowedExtensions == {"jpg", "jpeg", "png", "gif"}

(***************************************************************************)
(* app.py: safe_float.  float() is modelled on texts over digits, a sign,  *)
(* a decimal point, blanks and other characters: blanks are stripped, an   *)
(* optional sign is followed by digits with at most one decimal point.     *)
(* The float is [num, frac]: the digits as a signed integer and the number *)
(* of fractional digits, trailing fractional zeros dropped.                *)
(***************************************************************************)
Digits == {"0", "1", "2", "3", "4", "5", "6", "7", "8", "9"}

DigitValue(c) ==
    CASE c = "0" -> 0 [] c = "1" -> 1 [] c = "2" -> 2 [] c = "3" -> 3
      [] c = "4" -> 4 [] c = "5" -> 5 [] c = "6" -> 6 [] c = "7" -> 7
      [] c = "8" -> 8 [] c = "9" -> 9

RECURSIVE DigitsValue(_)
DigitsValue(s) ==
    IF s = <<>> THEN 0
    ELSE 10 * DigitsValue(SubSeq(s, 1, Len(s) - 1)) + DigitValue(s[Len(s)])

RECURSIVE Strip(_)
Strip(s) ==
    IF s # <<>> /\ s[1] = " " THEN Strip(Tail(s))
    ELSE IF s # <<>> /\ s[Len(s)] = " " THEN Strip(SubSeq(s, 1, Len(s) - 1))
    ELSE s

RECURSIVE DropTrailingZeros(_)
DropTrailingZeros(s) ==
    IF s # <<>> /\ s[Len(s)] = "0" THEN DropTrailingZeros(SubSeq(s, 1, Len(s) - 1))
    ELSE s

\* float(text): None when Python raises ValueError, Some(float) otherwise.
ParseFloat(text) ==
    LET s == Strip(text)
        signed == s # <<>> /\ s[1] \in {"+", "-"}
        u == IF signed THEN Tail(s) ELSE s
        dots == {i \in 1..Len(u) : u[i] = "."}
        wellFormed ==
            /\ Cardinality(dots) <= 1
            /\ \A i \in 1..Len(u) : u[i] \in Digits \cup {"."}
            /\ \E i \in 1..Len(u) : u[i] \in Digits
        dot == IF dots = {} THEN Len(u) + 1 ELSE CHOOSE i \in dots : TRUE
        whole == SubSeq(u, 1, dot - 1)
        fraction == DropTrailingZeros(SubSeq(u, dot + 1, Len(u)))
        magnitude == DigitsValue(whole \o fraction)
    IN  IF wellFormed
        THEN Some([num |-> IF signed /\ s[1] = "-" THEN 0 - magnitude ELSE magnitude,
                   frac |-> Len(fraction)])
        ELSE None

\* A mutant of safe_float: a text that does not parse is stored as 0.0.
safe_float_zero(val) ==
    IF val = None \/ val = Some(<<>>) THEN None
    ELSE IF ParseFloat(val[1]) = None
         THEN Some([num |-> 0, frac |-> 0])
         ELSE ParseFloat(val[1])

\* val is the data of a HiddenField or StringField: None, or Some(text).
safe_float(val) ==
    IF val = None \/ val = Some(<<>>) THEN None
    ELSE ParseFloat(val[1])

(***************************************************************************)
(* app.py: handle_file_upload.  secure_filename is modelled on the file    *)
(* names the model submits.                                                *)
(***************************************************************************)
secure_filename(name) ==
    CASE name = "../b.png" -> "b.png"
      [] name = "my elk.jpg" -> "my_elk.jpg"
      [] name = ".." -> ""
      [] OTHER -> name

\* The extension FileAllowed looks at, for the file names the model submits.
Extension(name) ==
    CASE name \in {"a.jpg", "my elk.jpg"} -> "jpg"
      [] name = "../b.png" -> "png"
      [] name = "notes.txt" -> "txt"
      [] OTHER -> ""

\* file_field: None (no file part) or Some(file name); saveOk: whether
\* file_field.save succeeds.  The result is the stored file name or None.
handle_file_upload(file_field, saveOk) ==
    IF file_field # None /\ file_field[1] # ""
    THEN LET filename == secure_filename(file_field[1])
         IN  IF saveOk /\ filename # "" THEN Some(filename) ELSE None
    ELSE None

(***************************************************************************)
(* The state.                                                              *)
(***************************************************************************)
VARIABLES
    phase,      \* "startup": the __main__ block has not seeded yet; "serving": app.run
    registry,   \* the animal table: a set of rows [id, name, animal_class]
    sightings,  \* the sighting table: primary key |-> row
    harvests,   \* the harvest table: primary key |-> row
    uploads,    \* the file names stored in UPLOAD_FOLDER
    req,        \* the last request handled
    resp,       \* its response
    session     \* the request another worker is in the middle of, or Idle

vars == <<phase, registry, sightings, harvests, uploads, req, resp, session>>

\* No request is in the middle of its handler.
Idle == [op |-> "idle"]

Max(S) == CHOOSE m \in S : \A x \in S : x <= m

\* The primary key an INSERT gets (SQLite's rowid: one more than the largest).
NextId(ids) == IF ids = {} THEN 1 ELSE Max(ids) + 1

(***************************************************************************)
(* app.py, the __main__ block: db.create_all() and the seeding of the      *)
(* animal table from ANIMAL_CHOICES.                                       *)
(***************************************************************************)
RECURSIVE TaxonomyPairsFrom(_)
\* for category, names in ANIMAL_CHOICES.items(): for name in names
TaxonomyPairsFrom(i) ==
    IF i > Len(Categories) THEN <<>>
    ELSE LET names == ANIMAL_CHOICES[Categories[i]]
         IN  [k \in 1..Len(names) |->
                 [name |-> names[k], animal_class |-> Categories[i]]]
             \o TaxonomyPairsFrom(i + 1)

TaxonomyPairs == TaxonomyPairsFrom(1)

\* A mutant of to_insert: the category loop stops one category early.
to_insert_short(existing) ==
    LET kept == SelectSeq(TaxonomyPairs,
                          LAMBDA p : p.animal_class # Categories[Len(Categories)])
    IN  SelectSeq(kept, LAMBDA p : p.name \notin existing)

\* The Animal objects the seed block collects, in order.
to_insert(existing) ==
    SelectSeq(TaxonomyPairs, LAMBDA p : p.name \notin existing)

\* db.session.add_all(to_insert); db.session.commit(): the rows get the next
\* primary keys in order. The UNIQUE constraint on animal.name fails the commit
\* when two of the new rows share a name.
SeedCommit(table, rows) ==
    LET base == IF table = {} THEN 0 ELSE Max({a.id : a \in table})
        new == {[id |-> base + k, name |-> rows[k].name,
                 animal_class |-> rows[k].animal_class] : k \in 1..Len(rows)}
        unique == \A j, k \in 1..Len(rows) : rows[j].name = rows[k].name => j = k
    IN  IF unique THEN [ok |-> TRUE, table |-> table \cup new]
        ELSE [ok |-> FALSE, table |-> table]

Init ==
    /\ phase = "startup"
    /\ registry = {}
    /\ sightings = <<>>
    /\ harvests = <<>>
    /\ uploads = {}
    /\ req = [op |-> "start"]
    /\ resp = [outcome |-> "None"]
    /\ session = Idle

\* One run of the __main__ block up to app.run.
Seed ==
    /\ phase = "startup"
    /\ LET existing == {a.name : a \in registry}
           rows == to_insert(existing)
           done == SeedCommit(registry, rows)
       IN  /\ registry' = (IF rows # <<>> THEN done.table ELSE registry)
           /\ phase' = (IF rows # <<>> /\ ~done.ok THEN "crashed" ELSE "serving")
           /\ req' = [op |-> "seed"]
           /\ resp' = [outcome |-> IF rows # <<>> /\ ~done.ok THEN "IntegrityError"
                                   ELSE "Seeded",
                       inserted |-> IF rows # <<>> /\ done.ok THEN Len(rows) ELSE 0]
    /\ UNCHANGED <<sightings, harvests, uploads, session>>

\* The process ends and the program is started again on the same database.
Restart ==
    /\ phase = "serving"
    /\ phase' = "startup"
    /\ req' = [op |-> "restart"]
    /\ resp' = [outcome |-> "Stopped"]
    /\ session' = Idle
    /\ UNCHANGED <<registry, sightings, harvests, uploads>>

(***************************************************************************)
(* forms.py: what validate_on_submit accepts.  A form is the record of its *)
(* fields' data (None or Some(value)); the uploaded file comes beside it.  *)
(***************************************************************************)
WindSpeedChoices ==
    {"", "0 mph", "5 mph", "10 mph", "15 mph", "20 mph", "25 mph", "30 mph",
     "35 mph", "40 mph", "45 mph", "50 mph", "55+ mph"}

HumidityChoices ==
    {"", "0%", "5%", "10%", "15%", "20%", "25%", "30%", "35%", "40%", "45%", "50%",
     "55%", "60%", "65%", "70%", "75%", "80%", "85%", "90%", "95%", "100%"}

\* DataRequired().
Required(data) == data # None /\ data[1] # ""

\* A SelectField under Optional(): an absent input passes, a submitted one
\* must be one of the choices.
SelectValid(data, choices) == IF data = None THEN TRUE ELSE data[1] \in choices

\* FileAllowed under Optional(): no file, or a file with an allowed extension.
PhotoAllowed(file) ==
    IF file = None THEN TRUE
    ELSE IF file[1] = "" THEN TRUE
    ELSE Extension(file[1]) \in AllowedExtensions

\* SightingForm with animal.choices set by the route.
SightingFormValid(form, file, choices) ==
    /\ Required(form.animal_category)
    /\ form.animal_category[1] \in CategoryChoices
    /\ Required(form.animal)
    /\ form.animal[1] \in choices
    /\ SelectValid(form.wind_speed, WindSpeedChoices)
    /\ SelectValid(form.humidity, HumidityChoices)
    /\ PhotoAllowed(file)

\* A mutant of CategoryAnimalChoices: the choices are the names of every
\* category.
CategoryAnimalChoicesAll(form, fallback) == TaxonomyNames

\* request.form.get('animal_category') or form.animal_category.data, then the
\* choices of that category; fallback is what an unknown category leaves.
CategoryAnimalChoices(form, fallback) ==
    IF form.animal_category # None /\ form.animal_category[1] \in DOMAIN ANIMAL_CHOICES
    THEN Range(ANIMAL_CHOICES[form.animal_category[1]])
    ELSE fallback

(***************************************************************************)
(* Queries.                                                                *)
(***************************************************************************)
\* A mutant of AnimalByName: the name is matched as a prefix (LIKE name%), for
\* the names the model submits.
AnimalByNamePrefix(table, name) ==
    LET full(n) == IF n = "Grouse" THEN "Grouse (Ruffed, Sage, Spruce, Sharp-Tailed)"
                   ELSE n
        found == {a \in table : a.name = full(name)}
    IN  IF found = {} THEN None ELSE Some(CHOOSE a \in found : TRUE)

\* Animal.query.filter_by(name=name).first()
AnimalByName(table, name) ==
    LET found == {a \in table : a.name = name}
    IN  IF found = {} THEN None ELSE Some(CHOOSE a \in found : TRUE)

\* row.animal: the relationship through animal_id.
AnimalOf(row) ==
    LET found == {a \in registry : a.id = row.animal_id}
    IN  IF found = {} THEN None ELSE Some(CHOOSE a \in found : TRUE)

\* s.animal.name if s.animal else None
AnimalNameOf(row) == IF AnimalOf(row) = None THEN None ELSE Some(AnimalOf(row)[1].name)

\* The orders in which the engine may produce the rows ids before ORDER BY.
RECURSIVE ScanOrders(_)
ScanOrders(ids) ==
    IF ids = {} THEN {<<>>}
    ELSE UNION {{<<x>> \o s : s \in ScanOrders(ids \ {x})} : x \in ids}

\* SQLite's order of DateTime values: NULL sorts before every value.
DateBefore(a, b) == (a = None /\ b # None) \/ (a # None /\ b # None /\ a[1] < b[1])

\* sorted with row id put after the rows that do not come after it.
InsertByDateTime(table, sorted, id, direction) ==
    LET x == table[id].date_time
        after(y) == IF direction = "asc" THEN DateBefore(x, y) ELSE DateBefore(y, x)
        k == Cardinality({i \in 1..Len(sorted) : ~after(table[sorted[i]].date_time)})
    IN  SubSeq(sorted, 1, k) \o <<id>> \o SubSeq(sorted, k + 1, Len(sorted))

RECURSIVE OrderByDateTime(_, _, _)
\* order_by(date_time.asc()) / order_by(date_time.desc()) over the scanned
\* rows: rows with equal date_time stay in scan order.
OrderByDateTime(table, scan, direction) ==
    IF scan = <<>> THEN <<>>
    ELSE InsertByDateTime(table,
                          OrderByDateTime(table, SubSeq(scan, 1, Len(scan) - 1), direction),
                          scan[Len(scan)], direction)

\* A mutant of SortDirection: only "desc" sorts descending.
SortDirectionDescOnly(sort_order) == IF sort_order # "desc" THEN "asc" ELSE "desc"

\* if sort_order == 'asc': ... asc() else: ... desc()
SortDirection(sort_order) == IF sort_order = "asc" THEN "asc" ELSE "desc"

\* A mutant of FilterByAnimal: the filter is not applied.
FilterByAnimalNone(table, animal_filter) == DOMAIN table

\* if animal_filter: query.join(Animal).filter(Animal.name == animal_filter)
FilterByAnimal(table, animal_filter) ==
    IF animal_filter # None /\ animal_filter[1] # ""
    THEN {i \in DOMAIN table :
            \E a \in registry : a.id = table[i].animal_id /\ a.name = animal_filter[1]}
    ELSE DOMAIN table

\* The byte order of the names order_by(Animal.name) sorts by.
NameOrder ==
    <<"American Bison", "Beaver", "Black Bear", "Bobcat", "Bobwhite Quail", "Brant",
      "Brown Bear", "Canada Goose", "Caribou", "Chukar Partridge", "Cottontail",
      "Cougar", "Coyote", "Crow", "Duck", "Elk", "Fox", "Goose", "Groundhog",
      "Grouse (Ruffed, Sage, Spruce, Sharp-Tailed)", "Hungarian Partridge",
      "Mallard", "Mergansers", "Moose", "Mule Deer", "Nutria", "Opossum", "Other",
      "Pheasant", "Porcupine", "Pronghorn", "Ptarmigan", "Rabbit", "Raccoon",
      "Squirrel", "Teal", "Turkey", "Whitetail Deer(Buck)", "Whitetail Deer(Doe)",
      "Wild Boar", "Wood Duck", "Woodcock">>

\* The names of set names in the order of NameOrder.
SortedNames(names) == SelectSeq(NameOrder, LAMBDA n : n \in names)

\* [a.name for a in Animal.query.order_by(Animal.name).all()]
unique_animals == SortedNames({a.name : a \in registry})

(***************************************************************************)
(* app.py: the Sighting routes.  Every route is served only once app.run   *)
(* has been reached.  method is the request's method, form the submitted   *)
(* fields, file the 'photo' part, saveOk whether the upload folder accepts *)
(* the file.                                                               *)
(***************************************************************************)
\* The fields of sightings_json for one row.
SightingJson(row) ==
    [id |-> row.id, marker_color |-> row.marker_color,
     sighting_name |-> row.sighting_name, animal |-> AnimalNameOf(row),
     location |-> row.location,
     date_time |-> IF row.date_time # None THEN <<"%Y-%m-%d %H:%M", row.date_time[1]>>
                   ELSE <<>>,
     lat |-> row.lat, lng |-> row.lng, notes |-> row.notes,
     photo_filename |-> row.photo_filename]

\* GET /sightings
view_sightings(animal_filter, sort_arg) ==
    /\ phase = "serving"
    /\ LET sort_order == IF sort_arg = None THEN "desc" ELSE sort_arg[1]
           matching == FilterByAnimal(sightings, animal_filter)
           results == {OrderByDateTime(sightings, scan, SortDirection(sort_order)) :
                          scan \in ScanOrders(matching)}
       IN  \E listed \in results :
             resp' = [outcome |-> "Rendered", template |-> "index.html",
                      sightings |-> listed,
                      sightings_json |->
                          [i \in 1..Len(listed) |-> SightingJson(sightings[listed[i]])],
                      animal_filter |-> animal_filter,
                      sort_order |-> sort_order,
                      unique_animals |-> unique_animals]
    /\ req' = [op |-> "view_sightings", animal |-> animal_filter, sort |-> sort_arg]
    /\ UNCHANGED <<phase, registry, sightings, harvests, uploads, session>>

\* The Sighting(...) constructor call of add_sighting; the columns of
\* models.Sighting.
NewSighting(id, animal_obj, form, filename) ==
    [id |-> id, animal_id |-> animal_obj.id,
     sighting_name |-> form.sighting_name, location |-> form.location,
     date_time |-> form.date_time, notes |-> form.notes,
     photo_filename |-> filename,
     weather |-> form.weather, wind |-> form.wind, wind_speed |-> form.wind_speed,
     wind_direction |-> form.wind_direction, humidity |-> form.humidity,
     temperature |-> form.temperature, marker_color |-> form.marker_color,
     lat |-> safe_float(form.lat), lng |-> safe_float(form.lng)]

\* A mutant of EditedSighting: the animal is not assigned.
EditedSightingKeepsAnimal(row, animal_obj, form, filename) ==
    [row EXCEPT
       !.sighting_name = form.sighting_name, !.location = form.location,
       !.date_time = form.date_time, !.notes = form.notes,
       !.weather = form.weather, !.wind = form.wind, !.wind_speed = form.wind_speed,
       !.wind_direction = form.wind_direction, !.humidity = form.humidity,
       !.temperature = form.temperature, !.marker_color = form.marker_color,
       !.lat = safe_float(form.lat), !.lng = safe_float(form.lng),
       !.photo_filename = IF filename # None THEN filename ELSE @]

\* A mutant of EditedSighting: photo_filename is assigned whatever the upload
\* returned.
EditedSightingPhotoAlways(row, animal_obj, form, filename) ==
    [row EXCEPT
       !.animal_id = animal_obj.id,
       !.sighting_name = form.sighting_name, !.location = form.location,
       !.date_time = form.date_time, !.notes = form.notes,
       !.weather = form.weather, !.wind = form.wind, !.wind_speed = form.wind_speed,
       !.wind_direction = form.wind_direction, !.humidity = form.humidity,
       !.temperature = form.temperature, !.marker_color = form.marker_color,
       !.lat = safe_float(form.lat), !.lng = safe_float(form.lng),
       !.photo_filename = filename]

\* The assignments of edit_sighting to the loaded row.
EditedSighting(row, animal_obj, form, filename) ==
    [row EXCEPT
       !.animal_id = animal_obj.id,
       !.sighting_name = form.sighting_name, !.location = form.location,
       !.date_time = form.date_time, !.notes = form.notes,
       !.weather = form.weather, !.wind = form.wind, !.wind_speed = form.wind_speed,
       !.wind_direction = form.wind_direction, !.humidity = form.humidity,
       !.temperature = form.temperature, !.marker_color = form.marker_color,
       !.lat = safe_float(form.lat), !.lng = safe_float(form.lng),
       !.photo_filename = IF filename # None THEN filename ELSE @]

\* table with row stored under its primary key.
Put(table, row) ==
    [i \in DOMAIN table \cup {row.id} |-> IF i = row.id THEN row ELSE table[i]]

\* A mutant of Remove: every row up to id is deleted.
RemoveUpTo(table, id) == [i \in {j \in DOMAIN table : j > id} |-> table[i]]

\* table without the row of primary key id.
Remove(table, id) == [i \in DOMAIN table \ {id} |-> table[i]]

\* GET or POST /sightings/add
add_sighting(method, form, file, saveOk) ==
    /\ phase = "serving"
    /\ req' = [op |-> "add_sighting", method |-> method, form |-> form,
               file |-> file, saveOk |-> saveOk]
    /\ LET choices == CategoryAnimalChoices(form, {})
           valid == method = "POST" /\ SightingFormValid(form, file, choices)
           filename == handle_file_upload(file, saveOk)
           animal_obj == AnimalByName(registry, form.animal[1])
           id == NextId(DOMAIN sightings)
       IN  IF ~valid
           THEN /\ resp' = [outcome |-> "Rendered", template |-> "add.html",
                            flash |-> None]
                /\ UNCHANGED <<sightings, uploads>>
           ELSE /\ uploads' = uploads \cup Range(filename)
                /\ IF animal_obj = None
                   THEN /\ resp' = [outcome |-> "UnknownAnimal", template |-> "add.html",
                                    flash |-> Some("Animal not found in database.")]
                        /\ UNCHANGED sightings
                   ELSE /\ sightings' = Put(sightings,
                                            NewSighting(id, animal_obj[1], form, filename))
                        /\ resp' = [outcome |-> "Redirect", to |-> "view_sightings",
                                    id |-> id, flash |-> Some("Sighting added!")]
    /\ UNCHANGED <<phase, registry, harvests, session>>

\* A mutant of view_sighting: get() in place of get_or_404().
view_sighting_get(id) ==
    /\ phase = "serving"
    /\ req' = [op |-> "view_sighting", id |-> id]
    /\ resp' = [outcome |-> "Rendered", template |-> "view_sighting.html",
                sighting |-> IF id \in DOMAIN sightings THEN Some(sightings[id]) ELSE None]
    /\ UNCHANGED <<phase, registry, sightings, harvests, uploads, session>>

\* GET /sightings/<id>
view_sighting(id) ==
    /\ phase = "serving"
    /\ req' = [op |-> "view_sighting", id |-> id]
    /\ resp' = IF id \in DOMAIN sightings
               THEN [outcome |-> "Rendered", template |-> "view_sighting.html",
                     sighting |-> sightings[id]]
               ELSE [outcome |-> "NotFound"]
    /\ UNCHANGED <<phase, registry, sightings, harvests, uploads, session>>

\* GET or POST /sightings/<id>/edit
edit_sighting(id, method, form, file, saveOk) ==
    /\ phase = "serving"
    /\ req' = [op |-> "edit_sighting", id |-> id, method |-> method, form |-> form,
               file |-> file, saveOk |-> saveOk]
    /\ IF id \notin DOMAIN sightings
       THEN /\ resp' = [outcome |-> "NotFound"]
            /\ UNCHANGED <<sightings, uploads>>
       ELSE LET choices == CategoryAnimalChoices(form, {""})
                valid == method = "POST" /\ SightingFormValid(form, file, choices)
                animal_obj == AnimalByName(registry, form.animal[1])
                filename == handle_file_upload(file, saveOk)
            IN  IF ~valid
                THEN /\ resp' = [outcome |-> "Rendered",
                                 template |-> "edit_sighting.html", flash |-> None]
                     /\ UNCHANGED <<sightings, uploads>>
                ELSE IF animal_obj = None
                THEN /\ resp' = [outcome |-> "UnknownAnimal",
                                 template |-> "edit_sighting.html",
                                 flash |-> Some("Animal not found in database.")]
                     /\ UNCHANGED <<sightings, uploads>>
                ELSE /\ sightings' = Put(sightings,
                                         EditedSighting(sightings[id], animal_obj[1],
                                                        form, filename))
                     /\ uploads' = uploads \cup Range(filename)
                     /\ resp' = [outcome |-> "Redirect", to |-> "view_sighting",
                                 id |-> id, flash |-> Some("Sighting updated!")]
    /\ UNCHANGED <<phase, registry, harvests, session>>

\* A mutant of delete_sighting: the delete cascades to the Animal of the row.
delete_sighting_cascade(id) ==
    /\ phase = "serving"
    /\ req' = [op |-> "delete_sighting", id |-> id]
    /\ IF id \in DOMAIN sightings
       THEN /\ sightings' = Remove(sightings, id)
            /\ registry' = {a \in registry : a.id # sightings[id].animal_id}
            /\ resp' = [outcome |-> "Redirect", to |-> "view_sightings", id |-> id,
                        flash |-> Some("Sighting deleted!")]
       ELSE /\ resp' = [outcome |-> "NotFound"]
            /\ UNCHANGED <<sightings, registry>>
    /\ UNCHANGED <<phase, harvests, uploads, session>>

\* POST /sightings/<id>/delete
delete_sighting(id) ==
    /\ phase = "serving"
    /\ req' = [op |-> "delete_sighting", id |-> id]
    /\ IF id \in DOMAIN sightings
       THEN /\ sightings' = Remove(sightings, id)
            /\ resp' = [outcome |-> "Redirect", to |-> "view_sightings", id |-> id,
                        flash |-> Some("Sighting deleted!")]
       ELSE /\ resp' = [outcome |-> "NotFound"]
            /\ UNCHANGED sightings
    /\ UNCHANGED <<phase, registry, harvests, uploads, session>>

(***************************************************************************)
(* forms.py: HarvestForm.                                                  *)
(***************************************************************************)
WeaponTypeChoices ==
    {"", "Recurve Bow", "Longbow", "Compound Bow", "Crossbow", "Shotgun", "Rifle",
     "Muzzleloader", "Other"}

CaliberChoices ==
    {"", "12ga", "20ga", "28ga", ".223", ".243", ".270", ".30-06", ".308", "Other"}

BroadheadChoices == {"", "Fixed Blade", "Mechanical", "Hybrid", "Other"}

\* The fields HarvestForm declares.
HarvestFormFields ==
    {"harvest_name", "animal", "date_time", "weather", "wind_speed",
     "wind_direction", "humidity", "weapon_type", "other_weapon_type", "caliber",
     "other_caliber", "broadhead", "other_broadhead", "shot_lat", "shot_lng",
     "recovery_lat", "recovery_lng", "distance_traveled", "notes", "photo",
     "marker_color"}

\* The form attributes add_harvest and edit_harvest read after the animal
\* lookup, in the order they read them.
HarvestFormReads ==
    <<"harvest_name", "date_time", "weather", "wind_speed", "wind_direction",
      "humidity", "weapon_type", "other_weapon_type", "caliber", "other_caliber",
      "broadhead", "other_broadhead", "location", "shot_lat", "shot_lng",
      "recovery_lat", "recovery_lng", "distance_traveled", "notes", "marker_color">>

\* form.<name>.data raises AttributeError for a name HarvestForm does not
\* declare: the request ends in a 500 and its session is discarded.
HarvestAttributeError ==
    \E i \in 1..Len(HarvestFormReads) : HarvestFormReads[i] \notin HarvestFormFields

HarvestFormValid(form, file) ==
    /\ Required(form.harvest_name)
    /\ Required(form.animal)
    /\ form.animal[1] \in HarvestAnimalChoices
    /\ SelectValid(form.wind_speed, WindSpeedChoices)
    /\ SelectValid(form.humidity, HumidityChoices)
    /\ SelectValid(form.weapon_type, WeaponTypeChoices)
    /\ SelectValid(form.caliber, CaliberChoices)
    /\ SelectValid(form.broadhead, BroadheadChoices)
    /\ PhotoAllowed(file)

(***************************************************************************)
(* app.py: the Harvest routes.                                             *)
(***************************************************************************)
\* models.Harvest.marker_color: default="#3388ff" fills the column of an
\* INSERT whose value is None.
MarkerColorDefault(value) == IF value = None THEN Some("#3388ff") ELSE value

\* The Harvest(...) constructor call of add_harvest, as the INSERT stores it.
NewHarvest(id, animal_obj, form, filename) ==
    [id |-> id, animal_id |-> animal_obj.id,
     harvest_name |-> form.harvest_name, date_time |-> form.date_time,
     weather |-> form.weather, wind_speed |-> form.wind_speed,
     wind_direction |-> form.wind_direction, humidity |-> form.humidity,
     weapon_type |-> form.weapon_type, other_weapon_type |-> form.other_weapon_type,
     caliber |-> form.caliber, other_caliber |-> form.other_caliber,
     broadhead |-> form.broadhead, other_broadhead |-> form.other_broadhead,
     location |-> form.location,
     shot_lat |-> safe_float(form.shot_lat), shot_lng |-> safe_float(form.shot_lng),
     recovery_lat |-> safe_float(form.recovery_lat),
     recovery_lng |-> safe_float(form.recovery_lng),
     distance_traveled |-> safe_float(form.distance_traveled),
     notes |-> form.notes, photo_filename |-> filename,
     marker_color |-> MarkerColorDefault(form.marker_color)]

\* The assignments of edit_harvest to the loaded row.
EditedHarvest(row, animal_obj, form, filename) ==
    [row EXCEPT
       !.animal_id = animal_obj.id,
       !.harvest_name = form.harvest_name, !.date_time = form.date_time,
       !.weather = form.weather, !.wind_speed = form.wind_speed,
       !.wind_direction = form.wind_direction, !.humidity = form.humidity,
       !.weapon_type = form.weapon_type,
       !.other_weapon_type = form.other_weapon_type,
       !.caliber = form.caliber, !.other_caliber = form.other_caliber,
       !.broadhead = form.broadhead, !.other_broadhead = form.other_broadhead,
       !.location = form.location,
       !.shot_lat = safe_float(form.shot_lat), !.shot_lng = safe_float(form.shot_lng),
       !.recovery_lat = safe_float(form.recovery_lat),
       !.recovery_lng = safe_float(form.recovery_lng),
       !.distance_traveled = safe_float(form.distance_traveled),
       !.notes = form.notes, !.marker_color = form.marker_color,
       !.photo_filename = IF filename # None THEN filename ELSE @]

\* The fields of harvests_json for one row.
HarvestJson(row) ==
    [id |-> row.id, animal |-> AnimalNameOf(row), harvest_name |-> row.harvest_name,
     date_time |-> IF row.date_time # None THEN <<"%Y-%m-%d %H:%M", row.date_time[1]>>
                   ELSE <<>>,
     weather |-> row.weather, wind_speed |-> row.wind_speed,
     wind_direction |-> row.wind_direction, humidity |-> row.humidity,
     weapon_type |-> row.weapon_type, caliber |-> row.caliber,
     broadhead |-> row.broadhead, location |-> row.location,
     distance_traveled |-> row.distance_traveled, notes |-> row.notes,
     photo_filename |-> row.photo_filename, marker_color |-> row.marker_color,
     shot_lat |-> row.shot_lat, shot_lng |-> row.shot_lng,
     recovery_lat |-> row.recovery_lat, recovery_lng |-> row.recovery_lng]

\* A mutant of view_all_harvests: the animal filter of view_sightings is applied.
view_all_harvests_filtered(animal_filter, sort_arg) ==
    /\ phase = "serving"
    /\ req' = [op |-> "view_all_harvests", animal |-> animal_filter, sort |-> sort_arg]
    /\ \E scan \in ScanOrders(FilterByAnimal(harvests, animal_filter)) :
         resp' = [outcome |-> "Rendered", template |-> "view_harvests.html",
                  harvests |-> scan,
                  harvests_json |-> [i \in 1..Len(scan) |-> HarvestJson(harvests[scan[i]])]]
    /\ UNCHANGED <<phase, registry, sightings, harvests, uploads, session>>

\* GET /view-harvests: the route reads no query parameter; animal_filter and
\* sort_arg are what the request carries.
view_all_harvests(animal_filter, sort_arg) ==
    /\ phase = "serving"
    /\ req' = [op |-> "view_all_harvests", animal |-> animal_filter, sort |-> sort_arg]
    /\ \E scan \in ScanOrders(DOMAIN harvests) :
         resp' = [outcome |-> "Rendered", template |-> "view_harvests.html",
                  harvests |-> scan,
                  harvests_json |-> [i \in 1..Len(scan) |-> HarvestJson(harvests[scan[i]])]]
    /\ UNCHANGED <<phase, registry, sightings, harvests, uploads, session>>

\* GET or POST /harvests/add
add_harvest(method, form, file, saveOk) ==
    /\ phase = "serving"
    /\ req' = [op |-> "add_harvest", method |-> method, form |-> form,
               file |-> file, saveOk |-> saveOk]
    /\ LET valid == method = "POST" /\ HarvestFormValid(form, file)
           filename == handle_file_upload(file, saveOk)
           animal_obj == AnimalByName(registry, form.animal[1])
           id == NextId(DOMAIN harvests)
       IN  IF ~valid
           THEN /\ resp' = [outcome |-> "Rendered", template |-> "add_harvest.html",
                            flash |-> None]
                /\ UNCHANGED <<harvests, uploads>>
           ELSE /\ uploads' = uploads \cup Range(filename)
                /\ IF animal_obj = None
                   THEN /\ resp' = [outcome |-> "UnknownAnimal",
                                    template |-> "add_harvest.html",
                                    flash |-> Some("Animal not found in database.")]
                        /\ UNCHANGED harvests
                   ELSE IF HarvestAttributeError
                   THEN /\ resp' = [outcome |-> "ServerError"]
                        /\ UNCHANGED harvests
                   ELSE /\ harvests' = Put(harvests,
                                           NewHarvest(id, animal_obj[1], form, filename))
                        /\ resp' = [outcome |-> "Redirect", to |-> "view_all_harvests",
                                    id |-> id,
                                    flash |-> Some("Harvest successfully added!")]
    /\ UNCHANGED <<phase, registry, sightings, session>>

\* GET /harvests/<id>
view_harvest(id) ==
    /\ phase = "serving"
    /\ req' = [op |-> "view_harvest", id |-> id]
    /\ resp' = IF id \in DOMAIN harvests
               THEN [outcome |-> "Rendered", template |-> "view_harvest.html",
                     harvest |-> harvests[id]]
               ELSE [outcome |-> "NotFound"]
    /\ UNCHANGED <<phase, registry, sightings, harvests, uploads, session>>

\* GET or POST /harvests/<id>/edit
edit_harvest(id, method, form, file, saveOk) ==
    /\ phase = "serving"
    /\ req' = [op |-> "edit_harvest", id |-> id, method |-> method, form |-> form,
               file |-> file, saveOk |-> saveOk]
    /\ IF id \notin DOMAIN harvests
       THEN /\ resp' = [outcome |-> "NotFound"]
            /\ UNCHANGED <<harvests, uploads>>
       ELSE LET valid == method = "POST" /\ HarvestFormValid(form, file)
                animal_obj == AnimalByName(registry, form.animal[1])
                filename == handle_file_upload(file, saveOk)
            IN  IF ~valid
                THEN /\ resp' = [outcome |-> "Rendered",
                                 template |-> "edit_harvest.html", flash |-> None]
                     /\ UNCHANGED <<harvests, uploads>>
                ELSE IF animal_obj = None
                THEN /\ resp' = [outcome |-> "UnknownAnimal",
                                 template |-> "edit_harvest.html",
                                 flash |-> Some("Animal not found in database.")]
                     /\ UNCHANGED <<harvests, uploads>>
                ELSE IF HarvestAttributeError
                THEN /\ resp' = [outcome |-> "ServerError"]
                     /\ UNCHANGED <<harvests, uploads>>
                ELSE /\ harvests' = Put(harvests,
                                        EditedHarvest(harvests[id], animal_obj[1],
                                                      form, filename))
                     /\ uploads' = uploads \cup Range(filename)
                     /\ resp' = [outcome |-> "Redirect", to |-> "view_harvest",
                                 id |-> id, flash |-> Some("Harvest updated!")]
    /\ UNCHANGED <<phase, registry, sightings, session>>

\* POST /harvests/<id>/delete
delete_harvest(id) ==
    /\ phase = "serving"
    /\ req' = [op |-> "delete_harvest", id |-> id]
    /\ IF id \in DOMAIN harvests
       THEN /\ harvests' = Remove(harvests, id)
            /\ resp' = [outcome |-> "Redirect", to |-> "view_all_harvests", id |-> id,
                        flash |-> Some("Harvest deleted!")]
       ELSE /\ resp' = [outcome |-> "NotFound"]
            /\ UNCHANGED harvests
    /\ UNCHANGED <<phase, registry, sightings, uploads, session>>

\* A POST of a list of Sighting identifiers to delete: app.py registers no
\* route that takes one, so the request ends in Flask's 404.
delete_sightings_batch(ids) ==
    /\ phase = "serving"
    /\ req' = [op |-> "delete_sightings_batch", ids |-> ids]
    /\ resp' = [outcome |-> "NotFound"]
    /\ UNCHANGED <<phase, registry, sightings, harvests, uploads, session>>

(***************************************************************************)
(* The handlers that write, one step at a time, as a worker runs them      *)
(* while other requests are served.  The objects a handler builds or       *)
(* changes live in its db.session until db.session.commit().               *)
(***************************************************************************)
\* The attributes edit_sighting assigns, in the order of its statements.
SightingAssignments ==
    <<"animal", "sighting_name", "location", "date_time", "notes", "weather", "wind",
      "wind_speed", "wind_direction", "humidity", "temperature", "marker_color",
      "lat", "lng">>

\* The attributes edit_harvest assigns, in the order of its statements.
HarvestAssignments ==
    <<"animal", "harvest_name", "date_time", "weather", "wind_speed", "wind_direction",
      "humidity", "weapon_type", "other_weapon_type", "caliber", "other_caliber",
      "broadhead", "other_broadhead", "location", "shot_lat", "shot_lng",
      "recovery_lat", "recovery_lng", "distance_traveled", "notes", "marker_color">>

\* The columns safe_float fills.
FloatColumns ==
    {"lat", "lng", "shot_lat", "shot_lng", "recovery_lat", "recovery_lng",
     "distance_traveled"}

\* One assignment statement of an edit handler on the session's object.
Assigned(obj, field, animal_obj, form) ==
    IF field = "animal" THEN [obj EXCEPT !.animal_id = animal_obj.id]
    ELSE IF field \in FloatColumns THEN [obj EXCEPT ![field] = safe_float(form[field])]
    ELSE [obj EXCEPT ![field] = form[field]]

\* The UPDATE the commit emits: the columns whose value in the session differs
\* from the loaded one, written over the stored row.
Flush(stored, loaded, obj) ==
    [k \in DOMAIN obj |-> IF obj[k] # loaded[k] THEN obj[k] ELSE stored[k]]

\* add_sighting up to db.session.add(new_sighting).
add_sighting_begin(method, form, file, saveOk) ==
    /\ phase = "serving"
    /\ session = Idle
    /\ method = "POST"
    /\ SightingFormValid(form, file, CategoryAnimalChoices(form, {}))
    /\ AnimalByName(registry, form.animal[1]) # None
    /\ LET filename == handle_file_upload(file, saveOk)
           animal_obj == AnimalByName(registry, form.animal[1])[1]
       IN  /\ uploads' = uploads \cup Range(filename)
           /\ session' = [op |-> "add_sighting", method |-> method, form |-> form,
                          file |-> file, saveOk |-> saveOk,
                          obj |-> NewSighting(0, animal_obj, form, filename)]
    /\ UNCHANGED <<phase, registry, sightings, harvests, req, resp>>

\* db.session.commit() of add_sighting: the INSERT, and the redirect.
add_sighting_commit ==
    /\ phase = "serving"
    /\ session.op = "add_sighting"
    /\ LET id == NextId(DOMAIN sightings)
       IN  /\ sightings' = Put(sightings, [session.obj EXCEPT !.id = id])
           /\ resp' = [outcome |-> "Redirect", to |-> "view_sightings",
                       id |-> id, flash |-> Some("Sighting added!")]
    /\ req' = [op |-> "add_sighting", method |-> session.method, form |-> session.form,
               file |-> session.file, saveOk |-> session.saveOk]
    /\ session' = Idle
    /\ UNCHANGED <<phase, registry, harvests, uploads>>

\* edit_sighting up to the first assignment: get_or_404, the form, the Animal.
edit_sighting_begin(id, method, form, file, saveOk) ==
    /\ phase = "serving"
    /\ session = Idle
    /\ id \in DOMAIN sightings
    /\ method = "POST"
    /\ SightingFormValid(form, file, CategoryAnimalChoices(form, {""}))
    /\ AnimalByName(registry, form.animal[1]) # None
    /\ session' = [op |-> "edit_sighting", id |-> id, method |-> method, form |-> form,
                   file |-> file, saveOk |-> saveOk,
                   animal_obj |-> AnimalByName(registry, form.animal[1])[1],
                   loaded |-> sightings[id], obj |-> sightings[id], pc |-> 1]
    /\ UNCHANGED <<phase, registry, sightings, harvests, uploads, req, resp>>

\* A mutant of edit_sighting_assign: each assignment is written to the table
\* at once.
edit_sighting_assign_autocommit ==
    /\ phase = "serving"
    /\ session.op = "edit_sighting"
    /\ session.pc <= Len(SightingAssignments)
    /\ LET obj == Assigned(session.obj, SightingAssignments[session.pc],
                           session.animal_obj, session.form)
       IN  /\ session' = [session EXCEPT !.obj = obj, !.pc = @ + 1]
           /\ sightings' = IF session.id \in DOMAIN sightings THEN Put(sightings, obj)
                           ELSE sightings
    /\ UNCHANGED <<phase, registry, harvests, uploads, req, resp>>

\* One of the assignments sighting.<attribute> = ... of edit_sighting.
edit_sighting_assign ==
    /\ phase = "serving"
    /\ session.op = "edit_sighting"
    /\ session.pc <= Len(SightingAssignments)
    /\ session' = [session EXCEPT
                     !.obj = Assigned(session.obj, SightingAssignments[session.pc],
                                      session.animal_obj, session.form),
                     !.pc = @ + 1]
    /\ UNCHANGED <<phase, registry, sightings, harvests, uploads, req, resp>>

\* The upload of edit_sighting and the assignment of photo_filename.
edit_sighting_photo ==
    /\ phase = "serving"
    /\ session.op = "edit_sighting"
    /\ session.pc = Len(SightingAssignments) + 1
    /\ LET filename == handle_file_upload(session.file, session.saveOk)
       IN  /\ uploads' = uploads \cup Range(filename)
           /\ session' = [session EXCEPT
                            !.obj.photo_filename = IF filename # None THEN filename ELSE @,
                            !.pc = @ + 1]
    /\ UNCHANGED <<phase, registry, sightings, harvests, req, resp>>

\* db.session.commit() of edit_sighting: the UPDATE of the changed columns.  It
\* fails when the row is gone.
edit_sighting_commit ==
    /\ phase = "serving"
    /\ session.op = "edit_sighting"
    /\ session.pc = Len(SightingAssignments) + 2
    /\ req' = [op |-> "edit_sighting", id |-> session.id, method |-> session.method,
               form |-> session.form, file |-> session.file, saveOk |-> session.saveOk]
    /\ IF session.obj # session.loaded /\ session.id \notin DOMAIN sightings
       THEN /\ resp' = [outcome |-> "ServerError"]
            /\ UNCHANGED sightings
       ELSE /\ sightings' = (IF session.obj = session.loaded THEN sightings
                             ELSE Put(sightings, Flush(sightings[session.id],
                                                       session.loaded, session.obj)))
            /\ resp' = [outcome |-> "Redirect", to |-> "view_sighting",
                        id |-> session.id, flash |-> Some("Sighting updated!")]
    /\ session' = Idle
    /\ UNCHANGED <<phase, registry, harvests, uploads>>

\* edit_harvest up to the first assignment.
edit_harvest_begin(id, method, form, file, saveOk) ==
    /\ phase = "serving"
    /\ session = Idle
    /\ id \in DOMAIN harvests
    /\ method = "POST"
    /\ HarvestFormValid(form, file)
    /\ AnimalByName(registry, form.animal[1]) # None
    /\ session' = [op |-> "edit_harvest", id |-> id, method |-> method, form |-> form,
                   file |-> file, saveOk |-> saveOk,
                   animal_obj |-> AnimalByName(registry, form.animal[1])[1],
                   loaded |-> harvests[id], obj |-> harvests[id], pc |-> 1]
    /\ UNCHANGED <<phase, registry, sightings, harvests, uploads, req, resp>>

\* The next statement of edit_harvest: an assignment, which raises
\* AttributeError when the form has no such field; then the upload; then the
\* commit.
edit_harvest_step ==
    /\ phase = "serving"
    /\ session.op = "edit_harvest"
    /\ LET n == Len(HarvestAssignments)
           field == HarvestAssignments[session.pc]
           filename == handle_file_upload(session.file, session.saveOk)
           done == [op |-> "edit_harvest", id |-> session.id, method |-> session.method,
                    form |-> session.form, file |-> session.file,
                    saveOk |-> session.saveOk]
       IN  IF session.pc <= n /\ field # "animal" /\ field \notin HarvestFormFields
           THEN /\ session' = Idle
                /\ req' = done
                /\ resp' = [outcome |-> "ServerError"]
                /\ UNCHANGED <<harvests, uploads>>
           ELSE IF session.pc <= n
           THEN /\ session' = [session EXCEPT
                                 !.obj = Assigned(session.obj, field, session.animal_obj,
                                                  session.form),
                                 !.pc = @ + 1]
                /\ UNCHANGED <<harvests, uploads, req, resp>>
           ELSE IF session.pc = n + 1
           THEN /\ uploads' = uploads \cup Range(filename)
                /\ session' = [session EXCEPT
                                 !.obj.photo_filename = IF filename # None THEN filename
                                                        ELSE @,
                                 !.pc = @ + 1]
                /\ UNCHANGED <<harvests, req, resp>>
           ELSE /\ session' = Idle
                /\ req' = done
                /\ IF session.obj # session.loaded /\ session.id \notin DOMAIN harvests
                   THEN /\ resp' = [outcome |-> "ServerError"]
                        /\ UNCHANGED harvests
                   ELSE /\ harvests' = (IF session.obj = session.loaded THEN harvests
                                        ELSE Put(harvests, Flush(harvests[session.id],
                                                                 session.loaded,
                                                                 session.obj)))
                        /\ resp' = [outcome |-> "Redirect", to |-> "view_harvest",
                                    id |-> session.id, flash |-> Some("Harvest updated!")]
                /\ UNCHANGED uploads
    /\ UNCHANGED <<phase, registry, sightings>>

(***************************************************************************)
(* The requests the model submits.                                         *)
(***************************************************************************)
Text(chars) == Some(chars)

\* A filled-in Sighting form.
SightingBase ==
    [animal_category |-> Some("Big Game"), animal |-> Some("Elk"),
     sighting_name |-> Some("Bull at dawn"), location |-> Some("North ridge"),
     date_time |-> Some(1), notes |-> Some("Bugling"), weather |-> Some("Clear"),
     wind |-> Some("Light"), wind_speed |-> Some("5 mph"),
     wind_direction |-> Some("NW"), humidity |-> Some("40%"),
     temperature |-> Some("50F"), marker_color |-> Some("#ff0000"),
     lat |-> Text(<<"4", "5", ".", "5">>), lng |-> Text(<<"-", "7">>)]

\* A Sighting form with only the required fields chosen.
SightingBlank ==
    [animal_category |-> Some("Small Game"), animal |-> Some("Rabbit"),
     sighting_name |-> Some(""), location |-> Some(""),
     date_time |-> None, notes |-> Some(""), weather |-> Some(""),
     wind |-> Some(""), wind_speed |-> Some(""),
     wind_direction |-> Some(""), humidity |-> Some(""),
     temperature |-> Some(""), marker_color |-> Some(""),
     lat |-> Text(<<>>), lng |-> Text(<<>>)]

Post(form, file, saveOk) ==
    [method |-> "POST", form |-> form, file |-> file, saveOk |-> saveOk]

Get(form) == [method |-> "GET", form |-> form, file |-> None, saveOk |-> TRUE]

\* Submissions that differ in category and animal.
SightingAnimalPosts ==
    {Post(SightingBase, None, TRUE), Post(SightingBlank, None, TRUE),
     Get(SightingBase),
     Post([SightingBase EXCEPT !.animal_category = Some("Small Game")], None, TRUE),
     Post([SightingBase EXCEPT !.animal_category = None], None, TRUE),
     Post([SightingBase EXCEPT !.animal_category = Some("Reptiles")], None, TRUE),
     Post([SightingBase EXCEPT !.animal = Some("elk")], None, TRUE),
     Post([SightingBase EXCEPT !.wind_speed = Some("99 mph")], None, TRUE)}

\* Submissions that differ in the uploaded photo.
SightingPhotoPosts ==
    {Post(SightingBase, Some("a.jpg"), TRUE), Post(SightingBase, Some("a.jpg"), FALSE),
     Post(SightingBase, Some("../b.png"), TRUE), Post(SightingBase, Some(""), TRUE),
     Post(SightingBase, Some(".."), TRUE), Post(SightingBase, Some("notes.txt"), TRUE)}

\* The texts submitted for a numeric field.
NumericTexts ==
    {None, Text(<<>>), Text(<<"a", "b", "c">>), Text(<<" ", "1", "2", " ">>),
     Text(<<"1", ".", "2", ".", "3">>)}

\* Submissions that differ in the coordinates.
SightingNumericPosts ==
    {Post([SightingBase EXCEPT !.lat = t], None, TRUE) : t \in NumericTexts}
    \cup {Post([SightingBase EXCEPT !.lng = Text(<<"-">>)], None, TRUE)}

\* Submissions that differ in animal and event time.
SightingListPosts ==
    {Post([SightingBase EXCEPT !.animal = Some(at[1]), !.date_time = Some(at[2])],
          None, TRUE) :
        at \in {<<"Elk", 1>>, <<"Elk", 2>>, <<"Moose", 1>>}}

\* A filled-in Harvest form (HarvestForm has no location field).
HarvestBase ==
    [harvest_name |-> Some("First bull"), animal |-> Some("Elk"),
     date_time |-> Some(1), weather |-> Some("Clear"), wind_speed |-> Some("5 mph"),
     wind_direction |-> Some("NW"), humidity |-> Some("40%"),
     weapon_type |-> Some("Other"), other_weapon_type |-> Some("Slingbow"),
     caliber |-> Some(""), other_caliber |-> Some(""),
     broadhead |-> Some("Fixed Blade"), other_broadhead |-> Some(""),
     shot_lat |-> Text(<<"4", "5">>), shot_lng |-> Text(<<"-", "7">>),
     recovery_lat |-> Text(<<"4", "6">>), recovery_lng |-> Text(<<"-", "8">>),
     distance_traveled |-> Text(<<"1", "2", "0">>), notes |-> Some("Quartering away"),
     marker_color |-> Some("#00ff00")]

HarvestPosts ==
    {Post(HarvestBase, None, TRUE), Get(HarvestBase),
     Post(HarvestBase, Some("a.jpg"), TRUE),
     Post([HarvestBase EXCEPT !.animal = Some("Grouse")], None, TRUE),
     Post([HarvestBase EXCEPT !.animal = Some("Grouse")], Some("a.jpg"), TRUE),
     Post([HarvestBase EXCEPT !.harvest_name = Some("")], None, TRUE),
     Post([HarvestBase EXCEPT !.marker_color = None], None, TRUE)}

\* A Harvest submission whose numeric texts are unparseable, empty and absent.
HarvestNumericPost ==
    Post([HarvestBase EXCEPT !.shot_lat = Text(<<"a", "b", "c">>),
                             !.distance_traveled = Text(<<>>),
                             !.recovery_lng = None], None, TRUE)

\* The 'animal' and 'sort' query parameters of a list request.
AnimalFilters == {None, Some(""), Some("Elk"), Some("elk")}
SortArgs == {None, Some("asc"), Some("ASC")}

(***************************************************************************)
(* The specifications.  The tables are capped by the largest primary key.  *)
(***************************************************************************)
SightingRoutes(posts, filters, sorts, maxId) ==
    \/ \E f \in filters, s \in sorts : view_sightings(f, s)
    \/ \E p \in posts :
         /\ add_sighting(p.method, p.form, p.file, p.saveOk)
         /\ DOMAIN sightings' \subseteq 1..maxId
    \/ \E id \in 1..(maxId + 1) : view_sighting(id)
    \/ \E id \in 1..(maxId + 1), p \in posts :
         edit_sighting(id, p.method, p.form, p.file, p.saveOk)
    \/ \E id \in 1..(maxId + 1) : delete_sighting(id)
    \/ \E ids \in SUBSET (1..(maxId + 1)) : delete_sightings_batch(ids)

HarvestRoutes(posts, filters, sorts, maxId) ==
    \/ \E f \in filters, s \in sorts : view_all_harvests(f, s)
    \/ \E p \in posts :
         /\ add_harvest(p.method, p.form, p.file, p.saveOk)
         /\ DOMAIN harvests' \subseteq 1..maxId
    \/ \E id \in 1..(maxId + 1) : view_harvest(id)
    \/ \E id \in 1..(maxId + 1), p \in posts :
         edit_harvest(id, p.method, p.form, p.file, p.saveOk)
    \/ \E id \in 1..(maxId + 1) : delete_harvest(id)

\* Submissions of every kind, list requests without parameters.
Next ==
    \/ Seed
    \/ Restart
    \/ SightingRoutes(SightingAnimalPosts, {None}, {None}, MaxSightingId)
    \/ HarvestRoutes(HarvestPosts, {None}, {None}, MaxHarvestId)

Spec == Init /\ [][Next]_vars

\* Submissions that differ in the uploaded photo.
NextPhoto ==
    \/ Seed
    \/ Restart
    \/ SightingRoutes({Post(SightingBase, None, TRUE)} \cup SightingPhotoPosts,
                      {None}, {None}, MaxSightingId)
    \/ HarvestRoutes({Post(HarvestBase, None, TRUE), Post(HarvestBase, Some("a.jpg"), TRUE)},
                     {None}, {None}, MaxHarvestId)

SpecPhoto == Init /\ [][NextPhoto]_vars

\* Submissions that differ in the numeric texts.
NextNumeric ==
    \/ Seed
    \/ Restart
    \/ SightingRoutes({Post(SightingBase, None, TRUE)} \cup SightingNumericPosts,
                      {None}, {None}, MaxSightingId)
    \/ HarvestRoutes({Post(HarvestBase, None, TRUE), HarvestNumericPost},
                     {None}, {None}, MaxHarvestId)

SpecNumeric == Init /\ [][NextNumeric]_vars

\* Sightings of several animals and event times, listed under filters and
\* sort orders.
NextList ==
    \/ Seed
    \/ Restart
    \/ \E f \in AnimalFilters, s \in SortArgs : view_sightings(f, s)
    \/ \E p \in SightingListPosts :
         /\ add_sighting(p.method, p.form, p.file, p.saveOk)
         /\ DOMAIN sightings' \subseteq 1..MaxListId
    \/ \E id \in 1..MaxListId, p \in SightingListPosts :
         edit_sighting(id, p.method, p.form, p.file, p.saveOk)
    \/ \E id \in 1..MaxListId : delete_sighting(id)

SpecList == Init /\ [][NextList]_vars

(***************************************************************************)
(* The program started on a database that already holds harvest rows       *)
(* (DATABASE_URL names a database that outlives the process, and           *)
(* db.create_all() leaves existing tables as they are).                    *)
(***************************************************************************)
\* A stored row of the harvest table: the columns of models.Harvest.
StoredHarvest(id, animal_id, date_time) ==
    [id |-> id, animal_id |-> animal_id,
     harvest_name |-> Some("First bull"), date_time |-> date_time,
     weather |-> Some("Clear"), wind_speed |-> Some("5 mph"),
     wind_direction |-> Some("NW"), humidity |-> Some("40%"),
     weapon_type |-> Some("Other"), other_weapon_type |-> Some("Slingbow"),
     caliber |-> Some(""), other_caliber |-> Some(""),
     broadhead |-> Some("Fixed Blade"), other_broadhead |-> Some(""),
     location |-> Some("North ridge"),
     shot_lat |-> Some([num |-> 45, frac |-> 0]), shot_lng |-> Some([num |-> -7, frac |-> 0]),
     recovery_lat |-> None, recovery_lng |-> None,
     distance_traveled |-> Some([num |-> 120, frac |-> 0]),
     notes |-> Some("Quartering away"), photo_filename |-> Some("a.jpg"),
     marker_color |-> Some("#3388ff")]

\* The registry a run of the seed block leaves.
SeededRegistry == SeedCommit({}, to_insert({})).table

\* The harvests the stored tables hold: an animal and an event time each.
StoredHarvestKinds == {<<"Elk", 1>>, <<"Elk", 2>>, <<"Moose", 1>>}

InitStored ==
    /\ phase = "startup"
    /\ registry = SeededRegistry
    /\ sightings = <<>>
    /\ \E ids \in SUBSET (1..MaxHarvestId) :
         \E kinds \in [ids -> StoredHarvestKinds] :
           harvests = [i \in ids |->
                         StoredHarvest(i, AnimalByName(SeededRegistry, kinds[i][1])[1].id,
                                       Some(kinds[i][2]))]
    /\ uploads = {"a.jpg"}
    /\ req = [op |-> "start"]
    /\ resp = [outcome |-> "None"]
    /\ session = Idle

NextStored ==
    \/ Seed
    \/ Restart
    \/ HarvestRoutes(HarvestPosts, AnimalFilters, SortArgs, MaxHarvestId)

SpecStored == InitStored /\ [][NextStored]_vars

\* A seeded registry and stored harvests of one kind.
InitBoth ==
    /\ phase = "startup"
    /\ registry = SeededRegistry
    /\ sightings = <<>>
    /\ \E ids \in SUBSET (1..MaxStoredId) :
         harvests = [i \in ids |->
                       StoredHarvest(i, AnimalByName(SeededRegistry, "Elk")[1].id, Some(1))]
    /\ uploads = {"a.jpg"}
    /\ req = [op |-> "start"]
    /\ resp = [outcome |-> "None"]
    /\ session = Idle

\* Sightings created and edited next to the harvests the database holds.
NextBoth ==
    \/ Seed
    \/ Restart
    \/ SightingRoutes({Post(SightingBase, None, TRUE),
                       Post(SightingBlank, Some("a.jpg"), TRUE)},
                      {None}, {None}, MaxSightingId)
    \/ HarvestRoutes({Post([HarvestBase EXCEPT !.animal = Some("Moose"),
                                               !.notes = Some("")], None, TRUE)},
                     {None}, {None}, MaxStoredId)

SpecBoth == InitBoth /\ [][NextBoth]_vars

(***************************************************************************)
(* Requests served while another worker is in the middle of a handler.     *)
(***************************************************************************)
\* The Sighting submissions of the concurrent runs.
ConcurrentPosts ==
    {Post(SightingBase, None, TRUE), Post(SightingBlank, Some("a.jpg"), TRUE)}

InitConcurrent ==
    /\ phase = "startup"
    /\ registry = SeededRegistry
    /\ sightings = <<>>
    /\ \E ids \in SUBSET (1..MaxConcId) :
         harvests = [i \in ids |->
                       StoredHarvest(i, AnimalByName(SeededRegistry, "Elk")[1].id, Some(1))]
    /\ uploads = {"a.jpg"}
    /\ req = [op |-> "start"]
    /\ resp = [outcome |-> "None"]
    /\ session = Idle

NextConcurrent ==
    \/ Seed
    \/ Restart
    \/ \E p \in ConcurrentPosts : add_sighting_begin(p.method, p.form, p.file, p.saveOk)
    \/ /\ add_sighting_commit
       /\ DOMAIN sightings' \subseteq 1..MaxConcId
    \/ \E id \in 1..MaxConcId, p \in ConcurrentPosts :
         edit_sighting_begin(id, p.method, p.form, p.file, p.saveOk)
    \/ edit_sighting_assign
    \/ edit_sighting_photo
    \/ edit_sighting_commit
    \/ \E id \in 1..MaxConcId :
         edit_harvest_begin(id, "POST", [HarvestBase EXCEPT !.notes = Some("")], None, TRUE)
    \/ edit_harvest_step
    \/ view_sightings(None, None)
    \/ \E id \in 1..MaxConcId : view_sighting(id)
    \/ view_all_harvests(None, None)
    \/ \E id \in 1..MaxConcId : view_harvest(id)
    \/ \E id \in 1..MaxConcId, p \in ConcurrentPosts :
         edit_sighting(id, p.method, p.form, p.file, p.saveOk)
    \/ \E id \in 1..MaxConcId : delete_sighting(id)
    \/ \E id \in 1..MaxConcId : delete_harvest(id)

SpecConcurrent == InitConcurrent /\ [][NextConcurrent]_vars

(***************************************************************************)
(* Properties.                                                             *)
(***************************************************************************)

\* C1: a sighting created with submitted animal name A references the Animal
\* named A; a list request with animal filter A returns exactly the stored
\* sightings whose Animal is named A, byte for byte, each once; a list request
\* with no filter (absent or empty) returns every stored sighting once.
C1_FilterAndReference ==
    /\ (req.op = "add_sighting" /\ resp.outcome = "Redirect") =>
          /\ resp.id \in DOMAIN sightings
          /\ \E a \in registry : /\ a.id = sightings[resp.id].animal_id
                                 /\ Some(a.name) = req.form.animal
    /\ req.op = "view_sightings" =>
          LET listed == resp.sightings
              named(A) == {i \in DOMAIN sightings :
                             \E a \in registry : /\ a.id = sightings[i].animal_id
                                                 /\ a.name = A}
          IN  /\ Len(listed) = Cardinality(Range(listed))
              /\ Range(listed) = (IF req.animal = None \/ req.animal = Some("")
                                  THEN DOMAIN sightings
                                  ELSE named(req.animal[1]))

\* C1 witness: a list filtered by "Elk" that returns an Elk sighting and leaves
\* a stored sighting of another animal out.
C1_Witness ==
    /\ req.op = "view_sightings"
    /\ req.animal = Some("Elk")
    /\ resp.sightings # <<>>
    /\ DOMAIN sightings \ Range(resp.sightings) # {}

\* C2 (as stated): the distinct-animal list returned with the sighting list is
\* the alphabetical list of the names referenced by at least one sighting.
C2_NamesInUse ==
    req.op = "view_sightings" =>
       resp.unique_animals =
          SortedNames({a.name : a \in {b \in registry :
                                         \E i \in DOMAIN sightings :
                                            sightings[i].animal_id = b.id}})

\* C3: the sighting list of a request with sort "asc" has non-decreasing event
\* times, and that of a request with any other sort value, or none, has
\* non-increasing event times, when the listed rows have event times.
C3_SortOrder ==
    req.op = "view_sightings" =>
       LET listed == resp.sightings
           t(i) == sightings[listed[i]].date_time
       IN  (\A i \in 1..Len(listed) : t(i) # None) =>
              \A i \in 1..(Len(listed) - 1) :
                 IF req.sort = Some("asc") THEN t(i)[1] <= t(i + 1)[1]
                 ELSE t(i)[1] >= t(i + 1)[1]

\* C3 witness: an ascending list of sightings with different event times.
C3_Witness ==
    /\ req.op = "view_sightings"
    /\ req.sort = Some("asc")
    /\ Len(resp.sightings) >= 2
    /\ sightings[resp.sightings[1]].date_time # sightings[resp.sightings[2]].date_time

C5_Seeding ==
    /\ [](phase = "serving" =>
            /\ \A c \in Range(Categories) : \A n \in Range(ANIMAL_CHOICES[c]) :
                  /\ Cardinality({a \in registry : a.name = n}) = 1
                  /\ \A a \in registry : a.name = n => a.animal_class = c
            /\ \A a \in registry : a.name \in TaxonomyNames
            /\ \A a, b \in registry : a.id = b.id => a = b)
    /\ [][(req'.op = "seed" /\ registry # {}) =>
             (registry' = registry /\ resp'.inserted = 0)]_vars

\* C5 witness: seeding has run again on the registry the first run filled.
C5_Witness ==
    /\ phase = "serving"
    /\ req.op = "seed"
    /\ resp.inserted = 0
    /\ registry # {}

\* C6 (as stated): a create whose form validates, whose animal is known and
\* which carries a numeric text that is absent, empty or holds a character no
\* number has, succeeds and stores None for every such numeric text.
C6_NumericTolerance ==
    LET bad(text) == \/ text = None
                     \/ text[1] = <<>>
                     \/ \E i \in 1..Len(text[1]) :
                           text[1][i] \notin Digits \cup {".", "-", "+", " "}
    IN  /\ (/\ req.op = "add_sighting"
            /\ req.method = "POST"
            /\ SightingFormValid(req.form, req.file, CategoryAnimalChoices(req.form, {}))
            /\ AnimalByName(registry, req.form.animal[1]) # None
            /\ \E f \in {"lat", "lng"} : bad(req.form[f])) =>
              /\ resp.outcome = "Redirect"
              /\ \A f \in {"lat", "lng"} :
                    bad(req.form[f]) => sightings[resp.id][f] = None
        /\ (/\ req.op = "add_harvest"
            /\ req.method = "POST"
            /\ HarvestFormValid(req.form, req.file)
            /\ AnimalByName(registry, req.form.animal[1]) # None
            /\ \E f \in {"shot_lat", "shot_lng", "recovery_lat", "recovery_lng",
                           "distance_traveled"} : bad(req.form[f])) =>
              /\ resp.outcome = "Redirect"
              /\ \A f \in {"shot_lat", "shot_lng", "recovery_lat", "recovery_lng",
                           "distance_traveled"} :
                    bad(req.form[f]) => harvests[resp.id][f] = None

\* C7: a view, an edit or a single delete of a Sighting or of a Harvest whose
\* identifier is not stored ends in NotFound and leaves the sightings, the
\* harvests and the registry as they were.
C7_NotFound ==
    [][/\ (/\ req'.op \in {"view_sighting", "edit_sighting", "delete_sighting"}
           /\ req'.id \notin DOMAIN sightings) =>
             /\ resp'.outcome = "NotFound"
             /\ sightings' = sightings /\ harvests' = harvests /\ registry' = registry
       /\ (/\ req'.op \in {"view_harvest", "edit_harvest", "delete_harvest"}
           /\ req'.id \notin DOMAIN harvests) =>
             /\ resp'.outcome = "NotFound"
             /\ sightings' = sightings /\ harvests' = harvests /\ registry' = registry]_vars

\* C7 witness: an edit of a sighting identifier that is not stored, answered
\* NotFound while other sightings are stored.
C7_Witness ==
    /\ req.op = "edit_sighting"
    /\ req.method = "POST"
    /\ resp.outcome = "NotFound"
    /\ sightings # <<>>

C9_PhotoKept ==
    [][/\ \A id \in DOMAIN sightings \cap DOMAIN sightings' :
             sightings'[id].photo_filename # sightings[id].photo_filename =>
                /\ req'.op = "edit_sighting" /\ req'.id = id
                /\ req'.file # None /\ req'.file # Some("") /\ req'.saveOk
                /\ sightings'[id].photo_filename = Some(secure_filename(req'.file[1]))
                /\ secure_filename(req'.file[1]) \in uploads'
       /\ \A id \in DOMAIN harvests \cap DOMAIN harvests' :
             harvests'[id].photo_filename # harvests[id].photo_filename =>
                /\ req'.op = "edit_harvest" /\ req'.id = id
                /\ req'.file # None /\ req'.file # Some("") /\ req'.saveOk
                /\ harvests'[id].photo_filename = Some(secure_filename(req'.file[1]))
                /\ secure_filename(req'.file[1]) \in uploads']_vars

\* C9 witness: an update whose upload failed has gone through, and the
\* sighting still has the photo it had.
C9_Witness ==
    /\ req.op = "edit_sighting"
    /\ resp.outcome = "Redirect"
    /\ req.file = Some("a.jpg")
    /\ ~req.saveOk
    /\ sightings[req.id].photo_filename = Some("b.png")

\* C10: a create or an update whose form validates and whose animal name is the
\* name of no Animal in the registry ends in UnknownAnimal: the same form is
\* rendered with an error message, no redirect, and the sightings and the
\* harvests are as they were.
C10_UnknownAnimal ==
    [][/\ (/\ req'.op \in {"add_sighting", "edit_sighting"}
           /\ req'.op = "edit_sighting" => req'.id \in DOMAIN sightings
           /\ req'.method = "POST"
           /\ SightingFormValid(req'.form, req'.file,
                                CategoryAnimalChoices(req'.form,
                                    IF req'.op = "edit_sighting" THEN {""} ELSE {}))
           /\ \A a \in registry : Some(a.name) # req'.form.animal) =>
             /\ resp'.outcome = "UnknownAnimal"
             /\ resp'.template = (IF req'.op = "edit_sighting" THEN "edit_sighting.html"
                                  ELSE "add.html")
             /\ resp'.flash # None
             /\ sightings' = sightings /\ harvests' = harvests
       /\ (/\ req'.op \in {"add_harvest", "edit_harvest"}
           /\ req'.op = "edit_harvest" => req'.id \in DOMAIN harvests
           /\ req'.method = "POST"
           /\ HarvestFormValid(req'.form, req'.file)
           /\ \A a \in registry : Some(a.name) # req'.form.animal) =>
             /\ resp'.outcome = "UnknownAnimal"
             /\ resp'.template = (IF req'.op = "edit_harvest" THEN "edit_harvest.html"
                                  ELSE "add_harvest.html")
             /\ resp'.flash # None
             /\ sightings' = sightings /\ harvests' = harvests
       /\ resp'.outcome = "UnknownAnimal" =>
             sightings' = sightings /\ harvests' = harvests]_vars

\* C10 witness: a harvest submitted with an animal the form offers and the
\* registry does not hold has been answered UnknownAnimal.
C10_Witness ==
    /\ req.op = "add_harvest"
    /\ resp.outcome = "UnknownAnimal"
    /\ registry # {}

\* C11 (as stated): the animal of a Sighting or Harvest submission that passes
\* form validation is a Taxonomy name, and the submission does not end in
\* UnknownAnimal once the registry is seeded.
C11_ValidAnimalInTaxonomy ==
    /\ (/\ req.op \in {"add_sighting", "edit_sighting"}
        /\ req.method = "POST"
        /\ SightingFormValid(req.form, req.file,
                             CategoryAnimalChoices(req.form,
                                 IF req.op = "edit_sighting" THEN {""} ELSE {})))
          => (req.form.animal[1] \in TaxonomyNames /\ resp.outcome # "UnknownAnimal")
    /\ (/\ req.op \in {"add_harvest", "edit_harvest"}
        /\ req.method = "POST"
        /\ HarvestFormValid(req.form, req.file))
          => (req.form.animal[1] \in TaxonomyNames /\ resp.outcome # "UnknownAnimal")

\* C12: a Sighting create or edit submission is accepted only when the
\* submitted category is a Taxonomy category and the submitted animal is in the
\* list of that category; it is rejected (the form is rendered again, nothing
\* stored) when the category is absent, is no Taxonomy category, or does not
\* list the animal; and after an accepted one the Animal the sighting
\* references has the submitted category as its animal_class.
C12_AnimalOfCategory ==
    (/\ req.op \in {"add_sighting", "edit_sighting"}
     /\ req.method = "POST"
     /\ resp.outcome # "NotFound") =>
       LET category == req.form.animal_category
           animal == req.form.animal
           listed == /\ category # None
                     /\ category[1] \in Range(Categories)
                     /\ animal # None
                     /\ animal[1] \in Range(ANIMAL_CHOICES[category[1]])
       IN  /\ resp.outcome = "Redirect" => listed
           /\ ~listed => resp.outcome = "Rendered"
           /\ resp.outcome = "Redirect" =>
                 \E a \in registry : /\ a.id = sightings[resp.id].animal_id
                                     /\ a.name = animal[1]
                                     /\ a.animal_class = category[1]

\* C12 witness: an edit that submits an animal under a category that does not
\* list it has been rejected, and the sighting keeps its animal.
C12_Witness ==
    /\ req.op = "edit_sighting"
    /\ req.method = "POST"
    /\ req.form.animal_category = Some("Small Game")
    /\ req.form.animal = Some("Elk")
    /\ resp.outcome = "Rendered"

\* C13 (as stated): every entry of the data handed to the map carries both
\* members of a coordinate pair or neither: the lat/lng pair of a sighting, and
\* the shot pair and the recovery pair of a harvest.
C13_PairsWhole ==
    /\ req.op = "view_sightings" =>
          \A i \in 1..Len(resp.sightings_json) :
             (resp.sightings_json[i].lat = None) <=> (resp.sightings_json[i].lng = None)
    /\ req.op = "view_all_harvests" =>
          \A i \in 1..Len(resp.harvests_json) :
             /\ (resp.harvests_json[i].shot_lat = None)
                   <=> (resp.harvests_json[i].shot_lng = None)
             /\ (resp.harvests_json[i].recovery_lat = None)
                   <=> (resp.harvests_json[i].recovery_lng = None)

\* C14 (as stated): a harvest submission that validates, names a known animal
\* and carries no marker color (absent or empty) is stored, with marker color
\* "#3388ff".
C14_DefaultMarkerColor ==
    (/\ req.op = "add_harvest"
     /\ req.method = "POST"
     /\ HarvestFormValid(req.form, req.file)
     /\ AnimalByName(registry, req.form.animal[1]) # None
     /\ req.form.marker_color \in {None, Some("")}) =>
       /\ resp.outcome = "Redirect"
       /\ harvests[resp.id].marker_color = Some("#3388ff")

\* C15: an update that goes through leaves the record under its identifier,
\* with every field the form carries set to the submitted value (the
\* coordinates to the parsed texts), the Animal re-resolved from the submitted
\* name, and the photo as C9 says; every other sighting, every harvest (for a
\* harvest update: every other harvest, every sighting) and the registry are
\* as they were.
C15_UpdateReplaces ==
    [][/\ (req'.op = "edit_sighting" /\ resp'.outcome = "Redirect") =>
             LET id == req'.id
                 f == req'.form
                 r == sightings'[id]
             IN  /\ DOMAIN sightings' = DOMAIN sightings
                 /\ r.id = id
                 /\ \A k \in {"sighting_name", "location", "date_time", "notes",
                              "weather", "wind", "wind_speed", "wind_direction",
                              "humidity", "temperature", "marker_color"} : r[k] = f[k]
                 /\ r.lat = safe_float(f.lat) /\ r.lng = safe_float(f.lng)
                 /\ \E a \in registry : a.id = r.animal_id /\ Some(a.name) = f.animal
                 /\ \A i \in DOMAIN sightings \ {id} : sightings'[i] = sightings[i]
                 /\ harvests' = harvests /\ registry' = registry
       /\ (req'.op = "edit_harvest" /\ resp'.outcome = "Redirect") =>
             LET id == req'.id
                 f == req'.form
                 r == harvests'[id]
             IN  /\ DOMAIN harvests' = DOMAIN harvests
                 /\ r.id = id
                 /\ \A k \in {"harvest_name", "date_time", "weather", "wind_speed",
                              "wind_direction", "humidity", "weapon_type",
                              "other_weapon_type", "caliber", "other_caliber",
                              "broadhead", "other_broadhead", "notes",
                              "marker_color"} : r[k] = f[k]
                 /\ \A k \in {"shot_lat", "shot_lng", "recovery_lat", "recovery_lng",
                              "distance_traveled"} : r[k] = safe_float(f[k])
                 /\ \E a \in registry : a.id = r.animal_id /\ Some(a.name) = f.animal
                 /\ \A i \in DOMAIN harvests \ {id} : harvests'[i] = harvests[i]
                 /\ sightings' = sightings /\ registry' = registry]_vars

\* C15 witness: an update has turned a sighting into one of another animal,
\* next to another stored sighting and a stored harvest.
C15_Witness ==
    /\ req.op = "edit_sighting"
    /\ resp.outcome = "Redirect"
    /\ req.form.animal = Some("Rabbit")
    /\ \E i \in DOMAIN sightings \ {req.id} : sightings[i].sighting_name # Some("")
    /\ harvests # <<>>

\* C16: once seeded, the registry stays what seeding left, whatever requests
\* follow: no step adds, changes or removes an Animal; names and ids are
\* unique; and every stored Sighting and Harvest references exactly one Animal
\* of the registry.
C16_RegistryFixed ==
    /\ [](/\ \A a, b \in registry : (a.name = b.name \/ a.id = b.id) => a = b
          /\ \A i \in DOMAIN sightings :
                Cardinality({a \in registry : a.id = sightings[i].animal_id}) = 1
          /\ \A i \in DOMAIN harvests :
                Cardinality({a \in registry : a.id = harvests[i].animal_id}) = 1)
    /\ [][registry # {} => registry' = registry]_vars

\* C16 witness: after creates, an update and a delete the registry is the
\* seeded one and a sighting and a harvest are stored.
C16_Witness ==
    /\ req.op = "delete_sighting"
    /\ resp.outcome = "Redirect"
    /\ sightings # <<>>
    /\ harvests # <<>>
    /\ registry = SeededRegistry

\* C17: while requests interleave, the tables change only in the step that
\* completes a request with a redirect: a whole handler, or the commit of the
\* request a worker is in the middle of; the statements before the commit
\* change no table.  Such a step changes one row, and the commit of an update
\* writes every column the handler changed in that one step.  A request that
\* ends in an error or in a rendered form leaves the tables as they were.  A
\* list or a view shows the rows as the tables hold them, never the values of
\* the request in progress.
C17_AtomicCommit ==
    [][/\ (sightings' # sightings \/ harvests' # harvests) =>
             /\ session' = session \/ (session # Idle /\ session' = Idle)
             /\ req'.op \in {"add_sighting", "edit_sighting", "delete_sighting",
                             "add_harvest", "edit_harvest", "delete_harvest"}
             /\ resp'.outcome = "Redirect"
             /\ Cardinality({i \in DOMAIN sightings \cup DOMAIN sightings' :
                               \/ i \notin DOMAIN sightings \cap DOMAIN sightings'
                               \/ sightings'[i] # sightings[i]})
                + Cardinality({i \in DOMAIN harvests \cup DOMAIN harvests' :
                                 \/ i \notin DOMAIN harvests \cap DOMAIN harvests'
                                 \/ harvests'[i] # harvests[i]}) = 1
       /\ (/\ session.op = "edit_sighting"
           /\ session' = Idle
           /\ resp'.outcome = "Redirect") =>
             \A k \in DOMAIN session.obj :
                session.obj[k] # session.loaded[k] =>
                   sightings'[session.id][k] = session.obj[k]
       /\ (/\ session # Idle
           /\ session' = Idle
           /\ resp'.outcome # "Redirect") =>
             (sightings' = sightings /\ harvests' = harvests)
       /\ req'.op = "view_sightings" =>
             /\ Range(resp'.sightings) = DOMAIN sightings'
             /\ \A i \in 1..Len(resp'.sightings) :
                   LET shown == resp'.sightings_json[i]
                       row == sightings'[resp'.sightings[i]]
                   IN  /\ shown.id = row.id
                       /\ \A k \in {"sighting_name", "location", "notes", "marker_color",
                                    "lat", "lng", "photo_filename"} : shown[k] = row[k]
       /\ req'.op = "view_all_harvests" =>
             /\ Range(resp'.harvests) = DOMAIN harvests'
             /\ \A i \in 1..Len(resp'.harvests) :
                   LET shown == resp'.harvests_json[i]
                       row == harvests'[resp'.harvests[i]]
                   IN  /\ shown.id = row.id
                       /\ \A k \in {"harvest_name", "weather", "notes", "marker_color",
                                    "shot_lat", "shot_lng"} : shown[k] = row[k]]_vars

\* C17 witness: the last request served is a list that shows the sighting a
\* worker is in the middle of updating, and the worker has assigned values the
\* list does not show.
C17_Witness ==
    /\ session.op = "edit_sighting"
    /\ session.pc > 5
    /\ session.obj.notes # session.loaded.notes
    /\ req.op = "view_sightings"
    /\ \E i \in 1..Len(resp.sightings) :
          /\ resp.sightings[i] = session.id
          /\ resp.sightings_json[i].notes = session.loaded.notes

====
